---- MODULE Spec2Model ----
(***************************************************************************)
(* Model of nonrad/utils.py: the configuration-coordinate helpers          *)
(* get_cc_structures, get_dQ, get_Q_from_struct, get_PES_from_vaspruns and *)
(* get_omega_from_PES.                                                     *)
(*                                                                         *)
(* The functions are pure; every specification draws the endpoint          *)
(* structures in its initial state and applies one function per step,      *)
(* recording the call in `call` and its outcome in `ret`.                  *)
(*                                                                         *)
(* Numbers.  Coordinates are integers on a grid whose unit is              *)
(* 0.001/(2*PDen) Angstrom, so the literal 0.001 of the source is 2*PDen   *)
(* grid units.  Arithmetic is exact (rational); a square root sqrt(n) is   *)
(* carried as its radicand n, which is faithful for equality and order     *)
(* because sqrt is strictly increasing on the non-negative numbers.  The   *)
(* values nan, +inf and -inf of IEEE division are kept as such.            *)
(***************************************************************************)
EXTENDS Integers, Sequences, FiniteSets, TLC

VARIABLES ground, excited, call, ret

vars == <<ground, excited, call, ret>>

(***************************************************************************)
(* Bounds of the model.                                                    *)
(***************************************************************************)
\* largest number of sites of a structure
MaxSites == 2
\* interpolation parameters and displacements are the fractions a/PDen
PDen == 3
\* largest number of calculation results of a batch
MaxBatch == 2
\* largest number of entries of a displacement list
MaxDisp == 2

(***************************************************************************)
(* Structures: ordered sequences of sites, a site a species and a          *)
(* Cartesian coordinate.                                                   *)
(***************************************************************************)
Site(sp, c) == [specie |-> sp, coords |-> c]

\* a point of a relaxed structure: a multiple of PDen grid units on each
\* axis, so that every structure interpolated at a/PDen is on the grid
P(x, y, z) == <<x * PDen, y * PDen, z * PDen>>

Species == {"H", "C"}

\* atomic masses in amu, to the nearest integer
atomic_mass(sp) == IF sp = "H" THEN 1 ELSE 12

\* from P(0,0,0): P(1,0,0) is nearer than 0.001, P(2,0,0) is at exactly
\* 0.001, P(2,4,0) is farther and moves on two axes
Points == {P(0, 0, 0), P(1, 0, 0), P(2, 0, 0), P(2, 4, 0)}

\* the sequences over S of 1 to n entries
SeqsUpTo(S, n) == UNION {[1..k -> S] : k \in 1..n}

Min2(a, b) == IF a < b THEN a ELSE b

(***************************************************************************)
(* Site.distance, squared.  The sites of the model are far from the cell   *)
(* boundary, where the minimum-image distance is the Euclidean one.        *)
(***************************************************************************)
distance_sq(a, b) ==
    LET d(k) == a.coords[k] - b.coords[k]
    IN  d(1) * d(1) + d(2) * d(2) + d(3) * d(3)

(***************************************************************************)
(* get_dQ: sqrt(sum over zip(ground, excited) of distance^2 * mass), the   *)
(* mass that of the FIRST argument's site.  zip stops at the shorter       *)
(* structure.  The result sqrt(n) is carried as its radicand n.            *)
(***************************************************************************)
RECURSIVE SumTerms(_, _, _)
SumTerms(g, e, n) ==
    IF n = 0 THEN 0
    ELSE SumTerms(g, e, n - 1)
         + distance_sq(g[n], e[n]) * atomic_mass(g[n].specie)

\* a plausible slip: the displacement of the site is taken from the origin
\* instead of from the partner site
RECURSIVE SumTermsFromOrigin(_, _, _)
SumTermsFromOrigin(g, e, n) ==
    IF n = 0 THEN 0
    ELSE SumTermsFromOrigin(g, e, n - 1)
         + distance_sq(g[n], Site(e[n].specie, P(0, 0, 0)))
           * atomic_mass(g[n].specie)

get_dQ_origin(g, e) == SumTermsFromOrigin(g, e, Min2(Len(g), Len(e)))

\* a plausible slip: zip(ground, ground)
get_dQ_self(g, e) == SumTerms(g, g, Min2(Len(g), Len(e)))

get_dQ(g, e) == SumTerms(g, e, Min2(Len(g), Len(e)))

(***************************************************************************)
(* Floating-point values of the candidate list.  A finite value is the     *)
(* exact fraction num/den (den > 0); the division of numpy arrays gives    *)
(* nan for 0/0 and a signed infinity for x/0, with a warning and no error. *)
(***************************************************************************)
Fin(n, d) == [k |-> "fin", num |-> n, den |-> d]
NaN == [k |-> "nan", num |-> 0, den |-> 1]
PInf == [k |-> "pinf", num |-> 0, den |-> 1]
NInf == [k |-> "ninf", num |-> 0, den |-> 1]

Divide(n, d) ==
    IF d = 0 THEN (IF n = 0 THEN NaN ELSE IF n > 0 THEN PInf ELSE NInf)
    ELSE IF d > 0 THEN Fin(n, d)
    ELSE Fin(-n, -d)

\* number of decimals of np.round
Decimals == 6

Scale == 10 ^ Decimals

\* np.round: n/d to the nearest integer, a tie to the even one
RoundHalfEven(n, d) ==
    LET q == n \div d
        r == n - q * d
    IN  IF 2 * r < d THEN q
        ELSE IF 2 * r > d THEN q + 1
        ELSE IF q % 2 = 0 THEN q ELSE q + 1

\* np.round(x, 6): the result is the fraction m / 10^6
Round(x) ==
    IF x.k = "fin" THEN Fin(RoundHalfEven(x.num * Scale, x.den), Scale)
    ELSE x

RoundAll(xs) == [i \in 1..Len(xs) |-> Round(xs[i])]

\* num/den compared with num2/den2 (den, den2 > 0); equal denominators are
\* not multiplied out
FracEq(a, b) ==
    IF a.den = b.den THEN a.num = b.num ELSE a.num * b.den = b.num * a.den

FracLess(a, b) ==
    IF a.den = b.den THEN a.num < b.num ELSE a.num * b.den < b.num * a.den

\* == of floats: nan equals nothing, itself included
FloatEq(a, b) ==
    /\ a.k # "nan"
    /\ a.k = b.k
    /\ a.k = "fin" => FracEq(a, b)

\* < of floats, nan compares false with everything
FloatLess(a, b) ==
    \/ a.k = "ninf" /\ b.k \in {"fin", "pinf"}
    \/ a.k = "fin" /\ b.k = "pinf"
    \/ a.k = "fin" /\ b.k = "fin" /\ FracLess(a, b)

\* np.sort: ascending, every nan after every number
SortsBefore(a, b) == (b.k = "nan" /\ a.k # "nan") \/ FloatLess(a, b)

RECURSIVE Insert(_, _)
Insert(sorted, x) ==
    IF sorted = <<>> THEN <<x>>
    ELSE IF SortsBefore(x, Head(sorted)) THEN <<x>> \o sorted
    ELSE <<Head(sorted)>> \o Insert(Tail(sorted), x)

RECURSIVE Sort(_)
Sort(xs) == IF xs = <<>> THEN <<>> ELSE Insert(Sort(Tail(xs)), Head(xs))

\* itertools.groupby: the runs of equal consecutive values, each with its
\* length (len(list(x[1])))
RECURSIVE GroupsFrom(_, _, _)
GroupsFrom(xs, i, acc) ==
    IF i > Len(xs) THEN acc
    ELSE IF acc # <<>> /\ FloatEq(acc[Len(acc)].key, xs[i])
         THEN GroupsFrom(xs, i + 1,
                [acc EXCEPT ![Len(acc)].n = acc[Len(acc)].n + 1])
         ELSE GroupsFrom(xs, i + 1, Append(acc, [key |-> xs[i], n |-> 1]))

groupby(xs) == GroupsFrom(xs, 1, <<>>)

\* max(groups, key=length): the FIRST group of the largest length
RECURSIVE MaxFrom(_, _, _)
MaxFrom(gs, i, best) ==
    IF i > Len(gs) THEN best
    ELSE MaxFrom(gs, i + 1, IF gs[i].n > best.n THEN gs[i] ELSE best)

\* a plausible slip: the LAST group of the largest length
RECURSIVE MaxFromLast(_, _, _)
MaxFromLast(gs, i, best) ==
    IF i > Len(gs) THEN best
    ELSE MaxFromLast(gs, i + 1, IF gs[i].n >= best.n THEN gs[i] ELSE best)

max_group_last(gs) == MaxFromLast(gs, 2, gs[1])

max_group(gs) == MaxFrom(gs, 2, gs[1])

\* the literal 0.001 of the tolerance test, in grid units
Tol001 == 2 * PDen

\* the default of the parameter tol
DefaultTol == Tol001

\* a plausible slip: the divisor is taken from the site, excited - site
site_x_from_site(g, e, s, i) ==
    [a \in 1..3 |-> Divide(s[i].coords[a] - g[i].coords[a],
                           e[i].coords[a] - s[i].coords[a])]

\* the three candidates of site i: (site - ground) / (excited - ground),
\* elementwise
site_x(g, e, s, i) ==
    [a \in 1..3 |-> Divide(s[i].coords[a] - g[i].coords[a],
                           e[i].coords[a] - g[i].coords[a])]

\* the source compares with the literal 0.001, not with its parameter tol
skipped(g, e, i, tol) == distance_sq(g[i], e[i]) < Tol001 * Tol001

\* possible_x after the first n turns of the loop over struct
RECURSIVE possible_x_after(_, _, _, _, _)
possible_x_after(g, e, s, tol, n) ==
    IF n = 0 THEN <<>>
    ELSE possible_x_after(g, e, s, tol, n - 1)
         \o (IF skipped(g, e, n, tol) THEN <<>> ELSE site_x(g, e, s, n))

\* np.sort(np.round(possible_x, 6)), groupby, max: max raises ValueError
\* on an empty sequence; the value returned is sqrt(radicand) * x
Q_of(dQ, xs) ==
    IF xs = <<>> THEN [kind |-> "ValueError"]
    ELSE [kind |-> "value", radicand |-> dQ,
          x |-> max_group(groupby(Sort(RoundAll(xs)))).key]

(***************************************************************************)
(* get_Q_from_struct.  The loop runs over the sites of struct and indexes  *)
(* ground and excited with the same index: a struct longer than either     *)
(* ends in IndexError, a shorter one uses a prefix of the endpoints.       *)
(* The local possible_x is kept in the outcome.                            *)
(***************************************************************************)
get_Q_from_struct(g, e, s, tol) ==
    LET dQ == get_dQ(g, e)
        m == Min2(Len(g), Len(e))
    IN  IF Len(s) > m
        THEN [kind |-> "IndexError",
              possible_x |-> possible_x_after(g, e, s, tol, m)]
        ELSE LET xs == possible_x_after(g, e, s, tol, Len(s))
             IN  [possible_x |-> xs] @@ Q_of(dQ, xs)

(***************************************************************************)
(* Structure.interpolate of the structure library, for one parameter       *)
(* a/PDen: site i at ground_i + (a/PDen) * (excited_i - ground_i), with    *)
(* the species of ground_i.  The coordinates of relaxed structures are     *)
(* multiples of PDen, so the division is exact.  Parameters below 0 and    *)
(* above 1 extrapolate.                                                    *)
(***************************************************************************)
interpolate(g, e, a) ==
    [i \in 1..Len(g) |->
        Site(g[i].specie,
             [k \in 1..3 |->
                (g[i].coords[k] * PDen
                 + a * (e[i].coords[k] - g[i].coords[k])) \div PDen])]

(***************************************************************************)
(* get_PES_from_vaspruns.  A calculation result (a parsed vasprun.xml) is  *)
(* its last structure and its final energy; energies are integers in an    *)
(* arbitrary unit.  An error of get_Q_from_struct on any result ends the   *)
(* whole call; np.min of an empty array raises ValueError.                 *)
(***************************************************************************)
Vasprun(s, en) == [structure |-> s, final_energy |-> en]

RECURSIVE MinFrom(_, _, _)
MinFrom(en, i, m) ==
    IF i > Len(en) THEN m
    ELSE MinFrom(en, i + 1, IF en[i] < m THEN en[i] ELSE m)

np_min(en) == MinFrom(en, 2, en[1])

\* a plausible slip: the first energy is taken for the minimum
shift_by_first(en) == [i \in 1..Len(en) |-> en[i] - en[1]]

\* energy - np.min(energy)
shift_by_min(en) == [i \in 1..Len(en) |-> en[i] - np_min(en)]

\* the loop of lines 127-130 from result i on, Q holding the values so far
RECURSIVE pes_loop(_, _, _, _, _)
pes_loop(g, e, vrs, i, Q) ==
    IF i > Len(vrs) THEN [kind |-> "value", Q |-> Q]
    ELSE LET r == get_Q_from_struct(g, e, vrs[i].structure, DefaultTol)
         IN  IF r.kind # "value" THEN [kind |-> r.kind]
             ELSE pes_loop(g, e, vrs, i + 1,
                           Append(Q, [radicand |-> r.radicand, x |-> r.x]))

get_PES_from_vaspruns(g, e, vrs) ==
    LET looped == pes_loop(g, e, vrs, 1, <<>>)
        energy == [i \in 1..Len(vrs) |-> vrs[i].final_energy]
    IN  IF looped.kind # "value" THEN looped
        ELSE IF Len(vrs) = 0 THEN [kind |-> "ValueError"]
        ELSE [kind |-> "value", Q |-> looped.Q,
              energy |-> shift_by_min(energy)]

(***************************************************************************)
(* get_cc_structures.  A displacement is the fraction d/PDen, carried as   *)
(* its numerator d; displacements + 1. is d + PDen.                        *)
(***************************************************************************)
NonZero(d) == d # 0

\* a plausible slip: the zero displacements are removed whatever
\* remove_zero says
get_cc_structures_strip(g, e, displacements, remove_zero) ==
    LET ds == SelectSeq(displacements, NonZero)
    IN  [kind |-> "value",
         ground_structs |-> [i \in 1..Len(ds) |-> interpolate(g, e, ds[i])],
         excited_structs |->
            [i \in 1..Len(ds) |-> interpolate(g, e, ds[i] + PDen)]]

get_cc_structures(g, e, displacements, remove_zero) ==
    LET ds == IF remove_zero THEN SelectSeq(displacements, NonZero)
              ELSE displacements
    IN  [kind |-> "value",
         ground_structs |-> [i \in 1..Len(ds) |-> interpolate(g, e, ds[i])],
         excited_structs |->
            [i \in 1..Len(ds) |-> interpolate(g, e, ds[i] + PDen)]]

(***************************************************************************)
(* get_omega_from_PES.  Q, Q0 and the fitted vertex are integers on a grid *)
(* whose unit is 1e-10, so that Q0 - 1e-10 is Q0 - 1.  The parameters are  *)
(* popt = <<omega, Q0, dE>>.                                               *)
(***************************************************************************)
None == [some |-> FALSE]
Some(v) == [some |-> TRUE, v |-> v]

\* a plausible slip: the vertex is bounded above only
bounds_no_lower(Q0) ==
    IF ~Q0.some
    THEN [lo |-> <<NInf, NInf, NInf>>, hi |-> <<PInf, PInf, PInf>>]
    ELSE [lo |-> <<NInf, NInf, NInf>>,
          hi |-> <<PInf, Fin(Q0.v, 1), PInf>>]

\* lines 158-159: (-inf, inf) for every parameter, or the vertex between
\* Q0 - 1e-10 and Q0
bounds_of(Q0) ==
    IF ~Q0.some
    THEN [lo |-> <<NInf, NInf, NInf>>, hi |-> <<PInf, PInf, PInf>>]
    ELSE [lo |-> <<NInf, Fin(Q0.v - 1, 1), NInf>>,
          hi |-> <<PInf, Fin(Q0.v, 1), PInf>>]

\* lo <= v <= hi for an integer v
Within(v, lo, hi) ==
    /\ lo.k = "ninf" \/ (lo.k = "fin" /\ lo.num <= v * lo.den)
    /\ hi.k = "pinf" \/ (hi.k = "fin" /\ v * hi.den <= hi.num)

\* the values a fitted parameter takes in the model
FitValues == -2..3

\* scipy's curve_fit: what the solver returns is not decided by this code;
\* it is some parameter vector within the bounds
curve_fit(Q, energy, bounds) ==
    {p \in [1..3 -> FitValues] :
        \A k \in 1..3 : Within(p[k], bounds.lo[k], bounds.hi[k])}

\* HBAR * sqrt(popt[0] * EV2J / (ANGS2M**2 * AMU2KG)): a positive constant
\* times sqrt(popt[0]), carried as its radicand; nan for a negative curvature
omega_of(popt) ==
    IF popt[1] < 0 THEN [kind |-> "value", omega |-> "nan"]
    ELSE [kind |-> "value", omega |-> "sqrt", radicand |-> popt[1]]

(***************************************************************************)
(* Spec: get_dQ and get_Q_from_struct on structures of up to MaxSites      *)
(* sites whose site counts need not agree.                                 *)
(***************************************************************************)
NoCall == [op |-> "none"]
NoRet == [kind |-> "none"]

GroundSites == {Site("H", P(0, 0, 0)), Site("C", P(1, 0, 0))}

ExcitedSites == {Site("C", c) : c \in Points}

StructSites == {Site("C", c) : c \in Points}

\* tolerances a caller passes: 0.0005, 0.001 (the default) and 0.0015
Tols == {PDen, 2 * PDen, 3 * PDen}

\* the structures handed to get_Q_from_struct: any structure of up to
\* MaxSites sites, and the structures interpolated between the endpoints
StructChoices ==
    SeqsUpTo(StructSites, MaxSites)
    \cup (IF Len(ground) = Len(excited)
          THEN {interpolate(ground, excited, a) : a \in 0..PDen}
          ELSE {})

Init ==
    /\ ground \in SeqsUpTo(GroundSites, MaxSites)
    /\ excited \in SeqsUpTo(ExcitedSites, MaxSites)
    /\ call = NoCall
    /\ ret = NoRet

Do_get_dQ ==
    /\ call.op = "none"
    /\ call' = [op |-> "get_dQ"]
    /\ ret' = [kind |-> "value", radicand |-> get_dQ(ground, excited)]
    /\ UNCHANGED <<ground, excited>>

Do_get_Q_from_struct ==
    /\ call.op = "none"
    /\ \E s \in StructChoices, tol \in Tols :
        /\ call' = [op |-> "get_Q_from_struct", struct |-> s, tol |-> tol]
        /\ ret' = get_Q_from_struct(ground, excited, s, tol)
    /\ UNCHANGED <<ground, excited>>

Next == Do_get_dQ \/ Do_get_Q_from_struct

Spec == Init /\ [][Next]_vars

(***************************************************************************)
(* SpecDQ: every pair of structures of up to MaxSites sites, each site of  *)
(* either species at any of the points; get_dQ is applied once.            *)
(***************************************************************************)
AllSites == {Site(sp, c) : sp \in Species, c \in Points}

InitDQ ==
    /\ ground \in SeqsUpTo(AllSites, MaxSites)
    /\ excited \in SeqsUpTo(AllSites, MaxSites)
    /\ call = NoCall
    /\ ret = NoRet

NextDQ == Do_get_dQ

SpecDQ == InitDQ /\ [][NextDQ]_vars

SameCount == Len(ground) = Len(excited)

SameMasses ==
    \A i \in 1..Min2(Len(ground), Len(excited)) :
        atomic_mass(ground[i].specie) = atomic_mass(excited[i].specie)

SamePositions ==
    \A i \in 1..Min2(Len(ground), Len(excited)) :
        ground[i].coords = excited[i].coords

\* C1 as stated: get_dQ(ground, excited) = get_dQ(excited, ground) for every
\* pair of structures of equal site count, whatever their species.
C1_Original ==
    (call.op = "get_dQ" /\ SameCount)
        => ret.radicand = get_dQ(excited, ground)

\* C1 amended: get_dQ(ground, excited) = get_dQ(excited, ground) for every
\* pair of structures of equal site count whose corresponding sites have the
\* same atomic mass.
C1_SymmetricEqualMasses ==
    (call.op = "get_dQ" /\ SameCount /\ SameMasses)
        => ret.radicand = get_dQ(excited, ground)

C1_Witness ==
    /\ call.op = "get_dQ"
    /\ SameCount /\ SameMasses
    /\ Len(ground) = 2
    /\ ground # excited
    /\ ret.radicand > 0

\* C8 as stated: get_dQ is >= 0, and it is 0 if and only if ground and
\* excited are identical structures.
C8_Original ==
    (call.op = "get_dQ" /\ SameCount)
        => /\ ret.radicand >= 0
           /\ (ret.radicand = 0 <=> ground = excited)

\* C8 amended: get_dQ is >= 0, and it is 0 if and only if every site of
\* ground is at the position of the corresponding site of excited (the
\* species of the two sites may differ).
C8_ZeroIffSamePositions ==
    (call.op = "get_dQ" /\ SameCount)
        => /\ ret.radicand >= 0
           /\ (ret.radicand = 0 <=> SamePositions)

C8_Witness ==
    /\ call.op = "get_dQ"
    /\ SameCount
    /\ Len(ground) = 2
    /\ SamePositions
    /\ ground # excited
    /\ ret.radicand = 0
(***************************************************************************)
(* The site-compatible pairs: ground and excited of the same site count.   *)
(***************************************************************************)
InitCompatible ==
    /\ \E n \in 1..MaxSites :
        /\ ground \in [1..n -> GroundSites]
        /\ excited \in [1..n -> ExcitedSites]
    /\ call = NoCall
    /\ ret = NoRet

(***************************************************************************)
(* SpecPES: get_PES_from_vaspruns on a batch of up to MaxBatch results,    *)
(* each the structure interpolated at 0, 1/PDen or 1 with some energy.     *)
(***************************************************************************)
Energies == {-1, 0, 2}

PESParams == {0, 1, PDen}

Vaspruns ==
    {Vasprun(interpolate(ground, excited, a), en) :
        a \in PESParams, en \in Energies}

Do_get_PES_from_vaspruns ==
    /\ call.op = "none"
    /\ \E vrs \in {<<>>} \cup SeqsUpTo(Vaspruns, MaxBatch) :
        /\ call' = [op |-> "get_PES_from_vaspruns", vaspruns |-> vrs]
        /\ ret' = get_PES_from_vaspruns(ground, excited, vrs)
    /\ UNCHANGED <<ground, excited>>

NextPES == Do_get_PES_from_vaspruns

\* excited sites nearer than 0.001 to a ground site, and farther
PESExcitedSites == {Site("C", P(1, 0, 0)), Site("C", P(2, 4, 0))}

InitPES ==
    /\ \E n \in 1..MaxSites :
        /\ ground \in [1..n -> GroundSites]
        /\ excited \in [1..n -> PESExcitedSites]
    /\ call = NoCall
    /\ ret = NoRet

SpecPES == InitPES /\ [][NextPES]_vars

(***************************************************************************)
(* SpecCC: get_cc_structures on a list of up to MaxDisp displacements      *)
(* among -1/PDen, 0 and 1/PDen.                                            *)
(***************************************************************************)
Displacements == {-1, 0, 1}

Do_get_cc_structures ==
    /\ call.op = "none"
    /\ \E ds \in {<<>>} \cup SeqsUpTo(Displacements, MaxDisp),
          rz \in BOOLEAN :
        /\ call' = [op |-> "get_cc_structures", displacements |-> ds,
                    remove_zero |-> rz]
        /\ ret' = get_cc_structures(ground, excited, ds, rz)
    /\ UNCHANGED <<ground, excited>>

NextCC == Do_get_cc_structures

SpecCC == InitCompatible /\ [][NextCC]_vars

(***************************************************************************)
(* SpecFit: get_omega_from_PES on a potential energy surface of three      *)
(* samples, with or without a fixed vertex and a plotting axis.  The       *)
(* solver returns some parameters within the bounds or fails to converge   *)
(* (RuntimeError).                                                         *)
(***************************************************************************)
QArrays == {<<-1, 0, 1>>, <<0, 1, 2>>}

EnergyArrays == {<<1, 0, 1>>, <<0, 1, 4>>}

Q0Choices == {None} \cup {Some(v) : v \in {-1, 0, 2}}

InitFit ==
    /\ ground \in [1..1 -> GroundSites]
    /\ excited \in [1..1 -> ExcitedSites]
    /\ call = NoCall
    /\ ret = NoRet

Do_get_omega_from_PES ==
    /\ call.op = "none"
    /\ \E Q \in QArrays, energy \in EnergyArrays, Q0 \in Q0Choices,
          ax \in BOOLEAN :
        LET bounds == bounds_of(Q0)
        IN  /\ call' = [op |-> "get_omega_from_PES", Q |-> Q,
                        energy |-> energy, Q0 |-> Q0, ax |-> ax]
            /\ \/ ret' = [kind |-> "RuntimeError", bounds |-> bounds]
               \/ \E popt \in curve_fit(Q, energy, bounds) :
                    ret' = [bounds |-> bounds, popt |-> popt, plotted |-> ax]
                           @@ omega_of(popt)
    /\ UNCHANGED <<ground, excited>>

NextFit == Do_get_omega_from_PES

SpecFit == InitFit /\ [][NextFit]_vars

(***************************************************************************)
(* Claims about get_Q_from_struct, under Spec.                             *)
(***************************************************************************)
IsQCall == call.op = "get_Q_from_struct"

\* struct is the structure interpolated between ground and excited at a/PDen
IsInterpolated(a) ==
    /\ SameCount
    /\ call.struct = interpolate(ground, excited, a)

\* ret is the number (a/PDen) * get_dQ(ground, excited)
IsFractionOfdQ(a) ==
    /\ ret.kind = "value"
    /\ ret.radicand = get_dQ(ground, excited)
    /\ ret.x.k = "fin"
    /\ ret.x.num * PDen = a * ret.x.den

\* some site of the pair moves by at least the literal 0.001
SomeSiteMoves ==
    \E i \in 1..Min2(Len(ground), Len(excited)) :
        distance_sq(ground[i], excited[i]) >= Tol001 * Tol001

Abs(n) == IF n < 0 THEN -n ELSE n

\* C2 as stated: for every pair and every p = a/PDen in [0,1],
\* get_Q_from_struct(ground, excited, S_p) = p * get_dQ(ground, excited).
C2_Original ==
    \A a \in 0..PDen :
        (IsQCall /\ call.tol = DefaultTol /\ IsInterpolated(a))
            => IsFractionOfdQ(a)

\* C2 amended: for every pair of equal site count in which some site moves
\* by 0.001 or more and every p = a/PDen in [0,1], get_Q_from_struct(ground,
\* excited, S_p) is x * get_dQ(ground, excited) where x is p rounded to 6
\* decimals: a multiple of 10^-6 within 0.5 * 10^-6 of p, hence p itself
\* when p has at most 6 decimals; the endpoints give 0 and get_dQ.
C2_RoundedFractionOfdQ ==
    \A a \in 0..PDen :
        (IsQCall /\ call.tol = DefaultTol /\ IsInterpolated(a)
         /\ SomeSiteMoves)
            => /\ ret.kind = "value"
               /\ ret.radicand = get_dQ(ground, excited)
               /\ ret.x.k = "fin"
               /\ ret.x.den = Scale
               /\ 2 * Abs(ret.x.num * PDen - a * Scale) <= PDen
               /\ (a = 0 => ret.x.num = 0)
               /\ (a = PDen => ret.x.num = Scale)

C2_Witness ==
    /\ IsQCall /\ call.tol = DefaultTol
    /\ IsInterpolated(1)
    /\ SomeSiteMoves
    /\ Len(ground) = 2
    /\ ret.kind = "value"
    /\ ret.x.k = "fin"
    /\ ret.x.num > 0 /\ ret.x.num < Scale

\* the candidate list the claim C3 describes: the sites whose endpoints are
\* at least the PASSED tol apart contribute, the others do not
RECURSIVE possible_x_by_tol(_)
possible_x_by_tol(n) ==
    IF n = 0 THEN <<>>
    ELSE possible_x_by_tol(n - 1)
         \o (IF distance_sq(ground[n], excited[n]) >= call.tol * call.tol
             THEN site_x(ground, excited, call.struct, n)
             ELSE <<>>)

\* C3: a site contributes candidates if and only if distance(ground_i,
\* excited_i) >= tol, for the tol the caller passes.
C3_PassedTolDecides ==
    (IsQCall /\ ret.kind # "IndexError")
        => ret.possible_x = possible_x_by_tol(Len(call.struct))

\* C4: when every site of the pair moves less than the tolerance, the call
\* ends in an error and returns no number.
C4_AllBelowTolIsError ==
    (/\ IsQCall
     /\ SameCount
     /\ Len(call.struct) = Len(ground)
     /\ \A i \in 1..Len(ground) :
            distance_sq(ground[i], excited[i]) < call.tol * call.tol)
        => ret.kind # "value"

\* C5: when the site counts of ground, excited and struct are not all equal,
\* get_dQ and get_Q_from_struct end in the incompatible-structures error.
C5_MismatchIsIncompatible ==
    /\ (call.op = "get_dQ" /\ ~SameCount)
            => ret.kind = "IncompatibleStructures"
    /\ (IsQCall /\ (~SameCount \/ Len(call.struct) # Len(ground)))
            => ret.kind = "IncompatibleStructures"

\* the rounded candidates, and how often a value occurs among them
Rounded == RoundAll(ret.possible_x)

Multiplicity(v) == Cardinality({i \in 1..Len(Rounded) : FloatEq(Rounded[i], v)})

\* C10: x* is a rounded candidate of maximal multiplicity, the numerically
\* smallest of those of maximal multiplicity, and the result is dQ * x*.
C10_SmallestModalValue ==
    (IsQCall /\ ret.kind = "value")
        => /\ ret.radicand = get_dQ(ground, excited)
           /\ \E i \in 1..Len(Rounded) : FloatEq(Rounded[i], ret.x)
           /\ \A i \in 1..Len(Rounded) :
                /\ Multiplicity(Rounded[i]) <= Multiplicity(ret.x)
                /\ Multiplicity(Rounded[i]) = Multiplicity(ret.x)
                        => ~FloatLess(Rounded[i], ret.x)

\* a tie: a larger value occurs as often as x*, and more than once
C10_Witness ==
    /\ IsQCall /\ ret.kind = "value"
    /\ Multiplicity(ret.x) >= 2
    /\ \E i \in 1..Len(Rounded) :
        /\ Multiplicity(Rounded[i]) = Multiplicity(ret.x)
        /\ FloatLess(ret.x, Rounded[i])

(***************************************************************************)
(* Claim about get_PES_from_vaspruns, under SpecPES.                       *)
(***************************************************************************)
IsPESCall == call.op = "get_PES_from_vaspruns"

\* the Q value of result i, computed on its own
QOfResult(i) ==
    get_Q_from_struct(ground, excited, call.vaspruns[i].structure, DefaultTol)

AllQComputable ==
    \A i \in 1..Len(call.vaspruns) : QOfResult(i).kind = "value"

\* the least raw energy of the batch
LeastEnergy ==
    CHOOSE m \in {call.vaspruns[i].final_energy : i \in 1..Len(call.vaspruns)} :
        \A i \in 1..Len(call.vaspruns) : m <= call.vaspruns[i].final_energy

\* C6: for a nonempty batch whose Q values can all be computed, the call
\* returns a Q array and an energy array of the batch's length, in input
\* order, energy i the raw energy i minus the least raw energy, so that the
\* least returned energy is 0 and none is negative.
C6_EnergiesShiftedToZero ==
    (IsPESCall /\ Len(call.vaspruns) >= 1 /\ AllQComputable)
        => /\ ret.kind = "value"
           /\ Len(ret.Q) = Len(call.vaspruns)
           /\ Len(ret.energy) = Len(call.vaspruns)
           /\ \A i \in 1..Len(call.vaspruns) :
                /\ LET q == QOfResult(i)
                   IN  ret.Q[i] = [radicand |-> q.radicand, x |-> q.x]
                /\ ret.energy[i] = call.vaspruns[i].final_energy - LeastEnergy
                /\ ret.energy[i] >= 0
           /\ \E i \in 1..Len(call.vaspruns) : ret.energy[i] = 0

\* two results, the second of lower energy and at another Q
C6_Witness ==
    /\ IsPESCall /\ Len(call.vaspruns) = 2 /\ AllQComputable
    /\ ret.kind = "value"
    /\ call.vaspruns[2].final_energy < call.vaspruns[1].final_energy
    /\ ret.Q[1].x # ret.Q[2].x
    /\ ret.energy[1] > 0 /\ ret.energy[2] = 0

(***************************************************************************)
(* Claim about get_cc_structures, under SpecCC.                            *)
(***************************************************************************)
IsCCCall == call.op = "get_cc_structures"

\* the entries of ds that are not 0, in order
RECURSIVE WithoutZeros(_)
WithoutZeros(ds) ==
    IF ds = <<>> THEN <<>>
    ELSE IF Head(ds) = 0 THEN WithoutZeros(Tail(ds))
    ELSE <<Head(ds)>> \o WithoutZeros(Tail(ds))

\* both branches follow the list ds: entry i of the ground branch is at
\* ds[i], entry i of the excited branch at ds[i] + 1
BranchesFollow(ds) ==
    /\ Len(ret.ground_structs) = Len(ds)
    /\ Len(ret.excited_structs) = Len(ds)
    /\ \A i \in 1..Len(ds) :
        /\ ret.ground_structs[i] = interpolate(ground, excited, ds[i])
        /\ ret.excited_structs[i] = interpolate(ground, excited, ds[i] + PDen)

IsFitCall == call.op = "get_omega_from_PES"

Unconstrained(k) == ret.bounds.lo[k] = NInf /\ ret.bounds.hi[k] = PInf

\* C9 as stated: with a fixed Q0 the fitted vertex is exactly Q0, curvature
\* and offset unconstrained; without Q0 all three are unconstrained.
C9_Original ==
    (IsFitCall /\ ret.kind = "value")
        => IF call.Q0.some
           THEN /\ ret.popt[2] = call.Q0.v
                /\ Unconstrained(1) /\ Unconstrained(3)
           ELSE \A k \in 1..3 : Unconstrained(k)

\* C9 amended: with a fixed Q0 the vertex is constrained to the interval
\* [Q0 - 1e-10, Q0], so the fitted vertex is within 1e-10 below Q0, and
\* curvature and offset are unconstrained; without Q0 all three are
\* unconstrained.
C9_VertexWithinEpsilon ==
    IsFitCall
        => IF call.Q0.some
           THEN /\ ret.bounds.lo[2] = Fin(call.Q0.v - 1, 1)
                /\ ret.bounds.hi[2] = Fin(call.Q0.v, 1)
                /\ Unconstrained(1) /\ Unconstrained(3)
                /\ ret.kind = "value"
                    => /\ call.Q0.v - 1 <= ret.popt[2]
                       /\ ret.popt[2] <= call.Q0.v
           ELSE \A k \in 1..3 : Unconstrained(k)

\* a fit with a fixed Q0 whose vertex is not Q0, and whose curvature and
\* offset differ from the vertex
C9_Witness ==
    /\ IsFitCall /\ ret.kind = "value"
    /\ call.Q0.some
    /\ ret.popt[2] = call.Q0.v - 1
    /\ ret.popt[1] > call.Q0.v
    /\ ret.popt[3] < call.Q0.v - 1

====
